---- MODULE Spec2Model ----
(***************************************************************************)
(* Client-side file uploader (App component, src/unnamed/part_001) and     *)
(* the signed-URL backend (src/unnamed/part_000).                          *)
(*                                                                         *)
(* The React state `files` is modelled as the value obtained by applying   *)
(* every queued setFiles updater in call order (updaters are pure, so the  *)
(* order of application is the order of the calls).  `rendered` is the     *)
(* `files` of the last committed render, reduced to the fields the cards'  *)
(* controls and the event handlers' closures read.  Updates made inside a  *)
(* DOM event handler are committed before the next event; updates made in  *)
(* promise continuations and progress callbacks are committed by a later   *)
(* render (action Render).                                                 *)
(***************************************************************************)
EXTENDS Integers, Sequences, FiniteSets, TLC

VARIABLES
    files,        \* useState<FileInfo[]>: latest record list
    rendered,     \* the `files` value of the last committed render
    fileError,    \* useState<string>: the rejection summary ("" = <<>>)
    tasks,        \* in-flight uploadFile invocations (suspended at an await)
    nextId,       \* next fresh value of crypto.randomUUID / createObjectURL
    nextAttempt,  \* serial number of the next uploadFile invocation
    revoked,      \* per preview handle: URL.revokeObjectURL calls
    now,          \* backend clock: Date.now() of the last request handled
    mounted,      \* the App component is mounted
    last,         \* the last operation performed (observation only): its name,
                  \* the record id it was about, the batch an intake received,
                  \* and the progress the record held before a transfer ended
    submit        \* the form-submit variant of App (frontend/src/App.tsx):
                  \* its files, its fileError and the run of handleSubmit

vars == <<files, rendered, fileError, tasks, nextId, nextAttempt, revoked, now,
          mounted, last, submit>>

----------------------------------------------------------------------------
(* Bounds of the model *)

MaxBatch == 2      \* candidates in one picker selection / drop
MaxAttempts == 2   \* uploadFile invocations in one session

\* Date.now() values are only compared with each other, so a session of
\* MaxAttempts requests needs no more than MaxAttempts distinct milliseconds
MaxClock == MaxAttempts - 1

----------------------------------------------------------------------------
(* Program constants *)

MAX_FILE_SIZE == 15 * 1024 * 1024

ALLOWED_TYPES ==
    {"image/jpeg", "image/png", "image/gif", "video/mp4", "video/quicktime"}

\* An optional field (url?, errorMessage?) is <<>> when absent, <<v>> when set
Absent == <<>>
Some(v) == <<v>>

\* Results of JavaScript arithmetic that are not finite numbers
NaN == 0 - 1
Infinity == 0 - 2
\* progressEvent.total when the transport does not report a total
NoTotal == 0 - 3

Statuses == {"pending", "uploading", "success", "error"}

----------------------------------------------------------------------------
(* Inputs: the candidate files a user can select or drop *)

Candidates ==
    { [name |-> "b.txt", type |-> "text/plain", size |-> 500],
      [name |-> "c.mp4", type |-> "video/mp4",  size |-> 15 * 1024 * 1024 + 1],
      [name |-> "d.gif", type |-> "image/gif",  size |-> 15 * 1024 * 1024],
      [name |-> "f.exe", type |-> "application/octet-stream", size |-> 20 * 1024 * 1024],
      [name |-> "z.jpg", type |-> "image/jpeg", size |-> 0] }

Batches == UNION { [1..n -> Candidates] : n \in 1..MaxBatch }

\* cumulative byte counts a progress notification can carry for a file
LoadedPoints(size) == {0, (size * 81) \div 200, size}

----------------------------------------------------------------------------
(* File Intake & Validator: validateAndAddFiles *)

\* a validator without the size rule
RejectReasonNoSizeRule(c) ==
    IF c.type \notin ALLOWED_TYPES THEN "unsupported type" ELSE ""

\* a validator that checks the size before the type
RejectReasonSizeFirst(c) ==
    IF c.size > MAX_FILE_SIZE THEN "exceeds 15MB limit"
    ELSE IF c.type \notin ALLOWED_TYPES THEN "unsupported type"
    ELSE ""

\* the reason pushed to invalidFiles for a candidate, "" when it is accepted
RejectReason(c) ==
    IF c.type \notin ALLOWED_TYPES THEN "unsupported type"
    ELSE IF c.size > MAX_FILE_SIZE THEN "exceeds 15MB limit"
    ELSE ""

IsValid(c) == RejectReason(c) = ""

\* a record whose id is its position in the set at the time of the intake
NewRecordIdByPosition(c, id) ==
    [ id |-> Len(files) + 1, name |-> c.name, size |-> c.size, type |-> c.type,
      previewUrl |-> id, status |-> "pending", progress |-> 0,
      url |-> Absent, errorMessage |-> Absent ]

\* the object pushed to newFiles for an accepted candidate
NewRecord(c, id) ==
    [ id |-> id, name |-> c.name, size |-> c.size, type |-> c.type,
      previewUrl |-> id, status |-> "pending", progress |-> 0,
      url |-> Absent, errorMessage |-> Absent ]

\* a forEach that stops at the first rejected candidate
RECURSIVE AcceptedUntilRejection(_, _)
AcceptedUntilRejection(batch, id0) ==
    IF batch = <<>> THEN <<>>
    ELSE IF RejectReason(Head(batch)) = ""
         THEN <<NewRecord(Head(batch), id0)>>
              \o AcceptedUntilRejection(Tail(batch), id0 + 1)
         ELSE <<>>

\* newFiles after the forEach over the batch; ids are drawn fresh, from id0 on
RECURSIVE AcceptedOf(_, _)
AcceptedOf(batch, id0) ==
    IF batch = <<>> THEN <<>>
    ELSE IF IsValid(Head(batch))
         THEN <<NewRecord(Head(batch), id0)>> \o AcceptedOf(Tail(batch), id0 + 1)
         ELSE AcceptedOf(Tail(batch), id0)

\* invalidFiles after the forEach: one "<name> (<reason>)" entry per rejection
RECURSIVE RejectedOf(_)
RejectedOf(batch) ==
    IF batch = <<>> THEN <<>>
    ELSE IF IsValid(Head(batch))
         THEN RejectedOf(Tail(batch))
         ELSE <<[name |-> Head(batch).name, reason |-> RejectReason(Head(batch))]>>
              \o RejectedOf(Tail(batch))

\* a summary that adds the new entries to those of the earlier intakes
SummaryAccumulates(batch) == fileError \o RejectedOf(batch)

\* the value given to setFileError: "" when nothing was rejected, otherwise
\* "Some files were not added: " followed by the entries joined with ", "
SummaryOf(batch) == RejectedOf(batch)

----------------------------------------------------------------------------
(* setFiles updaters of uploadFile and removeFile *)

\* prev.map(f => f.id === id ? {...f, status: "uploading", progress: 0} : f)
SetUploading(prev, id) ==
    [i \in 1..Len(prev) |->
        IF prev[i].id = id
        THEN [prev[i] EXCEPT !.status = "uploading", !.progress = 0]
        ELSE prev[i]]

\* a progress update that takes 100% for the end of the upload
SetProgressCompletes(prev, id, pct) ==
    [i \in 1..Len(prev) |->
        IF prev[i].id = id
        THEN [prev[i] EXCEPT !.progress = pct,
                             !.status = IF pct = 100 THEN "success" ELSE @]
        ELSE prev[i]]

\* a progress update that writes the notification into every record
SetProgressEveryRecord(prev, id, pct) ==
    [i \in 1..Len(prev) |-> [prev[i] EXCEPT !.progress = pct]]

\* prev.map(f => f.id === id ? {...f, progress: percentCompleted} : f)
SetProgress(prev, id, pct) ==
    [i \in 1..Len(prev) |->
        IF prev[i].id = id THEN [prev[i] EXCEPT !.progress = pct] ELSE prev[i]]

\* a success update that forgets the url
SetSuccessWithoutUrl(prev, id, u) ==
    [i \in 1..Len(prev) |->
        IF prev[i].id = id
        THEN [prev[i] EXCEPT !.status = "success", !.progress = 100]
        ELSE prev[i]]

\* a success update that builds the record anew and loses its preview handle
SetSuccessDropsPreview(prev, id, u) ==
    [i \in 1..Len(prev) |->
        IF prev[i].id = id
        THEN [prev[i] EXCEPT !.status = "success", !.progress = 100, !.url = Some(u),
                             !.previewUrl = 0]
        ELSE prev[i]]

\* prev.map(f => f.id === id ? {...f, status: "success", progress: 100, url} : f)
SetSuccess(prev, id, u) ==
    [i \in 1..Len(prev) |->
        IF prev[i].id = id
        THEN [prev[i] EXCEPT !.status = "success", !.progress = 100, !.url = Some(u)]
        ELSE prev[i]]

\* an error update that leaves the progress where the transfer stopped
SetErrorKeepsProgress(prev, id, msg) ==
    [i \in 1..Len(prev) |->
        IF prev[i].id = id
        THEN [prev[i] EXCEPT !.status = "error", !.errorMessage = Some(msg)]
        ELSE prev[i]]

\* a catch that only logs the error
SetErrorOnlyLogs(prev, id, msg) == prev

\* an error update that adds a record when none has the id
SetErrorUpsert(prev, id, msg) ==
    IF \E i \in 1..Len(prev) : prev[i].id = id
    THEN [i \in 1..Len(prev) |->
            IF prev[i].id = id
            THEN [prev[i] EXCEPT !.status = "error", !.progress = 0,
                                 !.errorMessage = Some(msg)]
            ELSE prev[i]]
    ELSE Append(prev, [id |-> id, name |-> "", type |-> "", size |-> 0,
                       previewUrl |-> id, status |-> "error", progress |-> 0,
                       url |-> Absent, errorMessage |-> Some(msg)])

\* an error update that is not keyed by id
SetErrorEveryRecord(prev, id, msg) ==
    [i \in 1..Len(prev) |->
        [prev[i] EXCEPT !.status = "error", !.progress = 0,
                        !.errorMessage = Some(msg)]]

\* prev.map(f => f.id === id ? {...f, status: "error", progress: 0, errorMessage} : f)
SetError(prev, id, msg) ==
    [i \in 1..Len(prev) |->
        IF prev[i].id = id
        THEN [prev[i] EXCEPT !.status = "error", !.progress = 0,
                             !.errorMessage = Some(msg)]
        ELSE prev[i]]

\* a removal by splice(findIndex(...), 1): index -1 takes the last record
FilterOutBySplice(prev, id) ==
    LET hits == {i \in 1..Len(prev) : prev[i].id = id}
        idx == IF hits = {} THEN Len(prev) ELSE CHOOSE i \in hits : \A j \in hits : i <= j
    IN IF prev = <<>> THEN <<>>
       ELSE [j \in 1..(Len(prev) - 1) |-> IF j < idx THEN prev[j] ELSE prev[j + 1]]

\* prev.filter((f) => f.id !== id)
RECURSIVE FilterOut(_, _)
FilterOut(prev, id) ==
    IF prev = <<>> THEN <<>>
    ELSE IF Head(prev).id = id THEN FilterOut(Tail(prev), id)
         ELSE <<Head(prev)>> \o FilterOut(Tail(prev), id)

\* prev.find((f) => f.id === id): the first match, as a set of at most one
Find(fs, id) ==
    LET hits == {i \in 1..Len(fs) : fs[i].id = id}
    IN IF hits = {} THEN {}
       ELSE {fs[CHOOSE i \in hits : \A j \in hits : i <= j]}

\* the revokeObjectURL calls of the removeFile updater, added to the count of
\* each handle: one for the previewUrl of fileToRemove, none when find gives
\* undefined
RevokeOf(counter, prev, id) ==
    LET fileToRemove == Find(prev, id)
    IN [h \in DOMAIN counter |->
          counter[h] + Cardinality({f \in fileToRemove : f.previewUrl = h})]

----------------------------------------------------------------------------
(* Progress arithmetic *)

\* Math.round(n / d) for n >= 0: halves round up; 0/0 is NaN, n/0 is Infinity
JsRoundDiv(n, d) ==
    IF d = 0 THEN (IF n = 0 THEN NaN ELSE Infinity)
    ELSE (n \div d) + (IF 2 * (n % d) >= d THEN 1 ELSE 0)

\* percentCompleted of onUploadProgress
PercentCompleted(loaded, total, size) ==
    LET denom == IF total = NoTotal \/ total = 0 THEN size ELSE total
    IN JsRoundDiv(loaded * 100, denom)

----------------------------------------------------------------------------
(* Backend: POST /get-upload-url and POST /confirm-upload *)

BucketName == "my-bucket"

StorageKey(t, filename) == [prefix |-> "uploads/", millis |-> t, filename |-> filename]

\* a handler whose catch answers with the error body but without a status
GetUploadUrlErrorAs200(req, t, signOk) ==
    IF signOk
    THEN [ status |-> 200, statusText |-> "OK",
           body |-> [ url |-> [signed |-> StorageKey(t, req.filename),
                               contentType |-> req.filetype, expiresIn |-> 3600],
                      key |-> StorageKey(t, req.filename) ] ]
    ELSE [ status |-> 200, statusText |-> "OK",
           body |-> [ error |-> "Failed to generate upload URL" ] ]

\* signOk = FALSE: getSignedUrl throws (missing bucket, region, credentials)
GetUploadUrl(req, t, signOk) ==
    IF signOk
    THEN [ status |-> 200, statusText |-> "OK",
           body |-> [ url |-> [signed |-> StorageKey(t, req.filename),
                               contentType |-> req.filetype, expiresIn |-> 3600],
                      key |-> StorageKey(t, req.filename) ] ]
    ELSE [ status |-> 500, statusText |-> "Internal Server Error",
           body |-> [ error |-> "Failed to generate upload URL" ] ]

ObjectUrl(bucket, key) ==
    [scheme |-> "https://", bucket |-> bucket, host |-> ".s3.amazonaws.com/", key |-> key]

ConfirmUpload(req) ==
    [ status |-> 200,
      body |-> [ success |-> TRUE, message |-> "Upload confirmed!",
                 imageUrl |-> ObjectUrl(BucketName, req.key) ] ]

\* `${x}` of a property of a parsed JSON body: "undefined" when it has none
Field(body, name) ==
    IF name \in DOMAIN body THEN body[name] ELSE "undefined"

----------------------------------------------------------------------------
(* Upload Lifecycle Manager: uploadFile *)

\* every accepted record starts one attempt, so ids stay within 1..MaxAttempts
RecordIds == 1..MaxAttempts

\* an attempt that starts at the transfer with an authorization of its own
NewTaskSkipsAuth(fileInfo, aid) ==
    [ aid |-> aid, id |-> fileInfo.id, name |-> fileInfo.name,
      type |-> fileInfo.type, size |-> fileInfo.size,
      pc |-> "transfer", resp |-> Some([key |-> StorageKey(0, fileInfo.name)]) ]

\* an uploadFile invocation suspended at `await fetch` (pc = "auth") or at
\* `await axios.put` (pc = "transfer"); resp is presignedUrl once parsed
NewTask(fileInfo, aid) ==
    [ aid |-> aid, id |-> fileInfo.id, name |-> fileInfo.name,
      type |-> fileInfo.type, size |-> fileInfo.size,
      pc |-> "auth", resp |-> Absent ]

\* a catch that reports every failure with the generic message
CatchMessageGeneric(err) == "Failed to upload file"

\* error instanceof Error ? error.message : "Failed to upload file"
CatchMessage(err) ==
    IF err.isError THEN err.message ELSE "Failed to upload file"

\* new Error(`Failed to get upload URL: ${response.statusText}`)
AuthError(response) ==
    [ isError |-> TRUE,
      message |-> IF response.statusText = "Internal Server Error"
                  THEN "Failed to get upload URL: Internal Server Error"
                  ELSE "Failed to get upload URL: " ]

\* fetch rejects when the request cannot be made
FetchError == [isError |-> TRUE, message |-> "Failed to fetch"]

\* what axios.put rejects with: an Error with its message, or a value that
\* is no Error (`catch (error)` takes whatever the promise rejects with)
TransferErrors ==
    { [isError |-> TRUE, message |-> "Network Error"],
      [isError |-> FALSE, message |-> "undefined"] }

ResponseOk(response) == response.status >= 200 /\ response.status <= 299

\* a url built on a key of the client's own instead of the authorized one
SuccessUrlOwnKey(presignedUrl) ==
    ObjectUrl(Field(presignedUrl, "bucket"), StorageKey(0, "file"))

\* the url stored on success: https://${bucket}.s3.amazonaws.com/${key}
SuccessUrl(presignedUrl) ==
    ObjectUrl(Field(presignedUrl, "bucket"), Field(presignedUrl, "key"))

\* an invocation that gives up when its record is no longer in the set
AuthOutcomeUnlessRemoved(t, response) ==
    IF ResponseOk(response) /\ Find(files, t.id) # {}
    THEN {[t EXCEPT !.pc = "transfer", !.resp = Some(response.body)]}
    ELSE {}

\* an invocation that ends after the authorization without a transfer
AuthOutcomeNoTransfer(t, response) == {}

\* a transfer started although the response was not ok
AuthOutcomeIgnoresStatus(t, response) ==
    {[t EXCEPT !.pc = "transfer", !.resp = Some(response.body)]}

\* where uploadFile stands once fetch has resolved with response: it throws
\* when the response is not ok, else it parses the body and issues axios.put
AuthOutcome(t, response) ==
    IF ResponseOk(response)
    THEN {[t EXCEPT !.pc = "transfer", !.resp = Some(response.body)]}
    ELSE {}

\* an intake that starts every record of the set again
StartEveryRecord(prev, fileInfos) ==
    [i \in 1..Len(prev) |-> [prev[i] EXCEPT !.status = "uploading", !.progress = 0]]

\* an intake that leaves the start of the uploads to the user
StartNone(prev, fileInfos) == prev

\* the synchronous part of uploadFile for each of fileInfos, in order
RECURSIVE StartAll(_, _)
StartAll(prev, fileInfos) ==
    IF fileInfos = <<>> THEN prev
    ELSE StartAll(SetUploading(prev, Head(fileInfos).id), Tail(fileInfos))

NewTasks(fileInfos, aid0) ==
    {NewTask(fileInfos[k], aid0 + k - 1) : k \in 1..Len(fileInfos)}

BumpAll(counter, fileInfos) ==
    [i \in DOMAIN counter |->
        counter[i] + Cardinality({k \in 1..Len(fileInfos) : fileInfos[k].id = i})]

----------------------------------------------------------------------------
(* What a card shows (upload status section of the render) *)

\* the fields of a rendered record that its controls and handlers read
Card(f) == [id |-> f.id, name |-> f.name, size |-> f.size, type |-> f.type,
            status |-> f.status]

Cards(fs) == [i \in 1..Len(fs) |-> Card(fs[i])]

ShowsProgress(f) == f.status = "uploading"
ShowsSuccess(f) == f.status = "success"
\* a retry control on every card that is not a success
ShowsRetryUnlessSuccess(f) == f.status # "success"

ShowsRetry(f) == f.status = "error"

----------------------------------------------------------------------------
(* Form-submit variant: handleSubmit of frontend/src/App.tsx *)

MaxSelected == 3   \* files selected before a submit

\* how the fetch of one file can settle: a 2xx answer, a 500, a rejection
FetchOutcomes == {"ok", "http500", "rejected"}

\* the state of the variant before any file is selected; promise[i] is the
\* state of the promise files.map made for files[i], fetches[i] the number of
\* POST /get-upload-url issued for it by the running handleSubmit, puts the
\* number of byte transfers issued
SubmitStart ==
    [ files |-> <<>>, fileError |-> "", pc |-> "idle", promise |-> <<>>,
      fetches |-> <<>>, uploadResults |-> <<>>, puts |-> 0 ]

\* the entry pushed to uploadResults for a file whose fetch settled
UploadResult(file, outcome, t) ==
    IF outcome = "ok"
    THEN [ file |-> file.name,
           presignedUrl |-> Some(GetUploadUrl([filename |-> file.name,
                                               filetype |-> file.type], t, TRUE).body),
           status |-> "success", message |-> Absent ]
    ELSE [ file |-> file.name, presignedUrl |-> Absent,
           status |-> "error", message |-> Some("Failed to get presigned url") ]

\* an inner catch that throws the error on after recording it
MappedPromiseRethrows(outcome) ==
    IF outcome = "ok" THEN "fulfilled" ELSE "rejected"

\* how the promise of the async callback of files.map settles: its own
\* try/catch handles every failure, so it is fulfilled either way
MappedPromise(outcome) == "fulfilled"

----------------------------------------------------------------------------
(* Initial state *)

Op(name, id) == [op |-> name, id |-> id, batch |-> <<>>, seen |-> {}]

\* the progress values of the records with this id (none when it was removed)
ProgressOf(fs, id) == {f.progress : f \in Find(fs, id)}

Init ==
    /\ files = <<>>
    /\ rendered = <<>>
    /\ fileError = <<>>
    /\ tasks = {}
    /\ nextId = 1
    /\ nextAttempt = 1
    /\ revoked = [i \in RecordIds |-> 0]
    /\ now = 0
    /\ mounted = TRUE
    /\ last = Op("init", 0)
    /\ submit = SubmitStart

----------------------------------------------------------------------------
(* Operations *)

\* handleFileChange / handleDrop -> validateAndAddFiles(batch), batch non-empty
ValidateAndAddFiles(batch) ==
    LET newFiles == AcceptedOf(batch, nextId)
        n == Len(newFiles)
    IN /\ mounted
       /\ nextAttempt + n - 1 <= MaxAttempts
       /\ fileError' = SummaryOf(batch)
       /\ files' = StartAll(files \o newFiles, newFiles)
       /\ rendered' = Cards(files')
       /\ tasks' = tasks \cup NewTasks(newFiles, nextAttempt)
       /\ nextId' = nextId + n
       /\ nextAttempt' = nextAttempt + n
       /\ last' = [Op("intake", 0) EXCEPT !.batch = batch]
       /\ UNCHANGED <<revoked, now, mounted, submit>>

\* the provider handles the request dt milliseconds after the previous one and
\* answers 2xx: response.json() is parsed and axios.put is issued
AuthSucceeds(t, dt) ==
    LET response == GetUploadUrl([filename |-> t.name, filetype |-> t.type], now + dt, TRUE)
    IN /\ mounted
       /\ now + dt <= MaxClock
       /\ now' = now + dt
       /\ t \in tasks
       /\ t.pc = "auth"
       /\ ResponseOk(response)
       /\ tasks' = (tasks \ {t}) \cup AuthOutcome(t, response)
       /\ last' = Op("authOk", t.id)
       /\ UNCHANGED <<files, rendered, fileError, nextId, nextAttempt, revoked, mounted, submit>>

\* the provider answers 500 (http = TRUE) or the request itself fails
AuthFails(t, http) ==
    LET response == GetUploadUrl([filename |-> t.name, filetype |-> t.type], now, FALSE)
        err == IF http THEN AuthError(response) ELSE FetchError
    IN /\ mounted
       /\ t \in tasks
       /\ t.pc = "auth"
       /\ http => ~ResponseOk(response)
       /\ files' = SetError(files, t.id, CatchMessage(err))
       /\ tasks' = (tasks \ {t}) \cup (IF http THEN AuthOutcome(t, response) ELSE {})
       /\ last' = Op(IF http THEN "authHttpFail" ELSE "authNetFail", t.id)
       /\ UNCHANGED <<rendered, fileError, nextId, nextAttempt, revoked, now, mounted, submit>>

\* onUploadProgress(progressEvent) during the transfer
UploadProgress(t, loaded, total) ==
    /\ mounted
    /\ t \in tasks
    /\ t.pc = "transfer"
    /\ files' = SetProgress(files, t.id, PercentCompleted(loaded, total, t.size))
    /\ last' = Op("progress", t.id)
    /\ UNCHANGED <<rendered, fileError, tasks, nextId, nextAttempt, revoked, now, mounted, submit>>

\* axios.put resolves
TransferSucceeds(t) ==
    /\ mounted
    /\ t \in tasks
    /\ t.pc = "transfer"
    /\ files' = SetSuccess(files, t.id, SuccessUrl(t.resp[1]))
    /\ tasks' = tasks \ {t}
    /\ last' = [Op("transferOk", t.id) EXCEPT !.seen = ProgressOf(files, t.id)]
    /\ UNCHANGED <<rendered, fileError, nextId, nextAttempt, revoked, now, mounted, submit>>

\* axios.put rejects
TransferFails(t, err) ==
    /\ mounted
    /\ t \in tasks
    /\ t.pc = "transfer"
    /\ files' = SetError(files, t.id, CatchMessage(err))
    /\ tasks' = tasks \ {t}
    /\ last' = [Op("transferFail", t.id) EXCEPT !.seen = ProgressOf(files, t.id)]
    /\ UNCHANGED <<rendered, fileError, nextId, nextAttempt, revoked, now, mounted, submit>>

\* a retry control shown on every card
RetryEnabledAlways(f) == TRUE

\* the retry button of a card is rendered only in the error branch
RetryEnabled(f) == ShowsRetry(f)

\* click on "Retry upload" of the card of id: retryUpload(id)
RetryUpload(id) ==
    /\ mounted
    /\ nextAttempt <= MaxAttempts
    /\ \E card \in Find(rendered, id) : RetryEnabled(card)
    /\ \E fileToRetry \in Find(rendered, id) :
          /\ files' = SetUploading(files, fileToRetry.id)
          /\ tasks' = tasks \cup {NewTask(fileToRetry, nextAttempt)}
    /\ rendered' = Cards(files')
    /\ nextAttempt' = nextAttempt + 1
    /\ last' = Op("retry", id)
    /\ UNCHANGED <<fileError, nextId, revoked, now, mounted, submit>>

\* click on the remove button of the card of id: removeFile(id)
RemoveFile(id) ==
    /\ mounted
    /\ Find(rendered, id) # {}
    /\ revoked' = RevokeOf(revoked, files, id)
    /\ files' = FilterOut(files, id)
    /\ rendered' = Cards(files')
    /\ last' = Op("remove", id)
    /\ UNCHANGED <<fileError, tasks, nextId, nextAttempt, now, mounted, submit>>

\* React commits the updates queued by promise continuations and callbacks
Render ==
    /\ mounted
    /\ rendered # Cards(files)
    /\ rendered' = Cards(files)
    /\ UNCHANGED <<files, fileError, tasks, nextId, nextAttempt, revoked, now, mounted, last, submit>>

\* the `files` the unmount cleanup closes over: the effect has no dependencies,
\* so it is the value of the first render
CleanupFiles == <<>>

\* the component unmounts: the effect cleanup revokes the preview URLs it sees
Unmount ==
    /\ mounted
    /\ mounted' = FALSE
    /\ revoked' = BumpAll(revoked, [k \in 1..Len(CleanupFiles) |->
                                       [id |-> CleanupFiles[k].previewUrl]])
    /\ last' = Op("unmount", 0)
    /\ UNCHANGED <<files, rendered, fileError, tasks, nextId, nextAttempt, now, submit>>

Next ==
    \/ \E batch \in Batches : ValidateAndAddFiles(batch)
    \/ \E t \in tasks, dt \in 0..1 : AuthSucceeds(t, dt)
    \/ \E t \in tasks, http \in BOOLEAN : AuthFails(t, http)
    \/ \E t \in tasks : \E loaded \in LoadedPoints(t.size), total \in {NoTotal, t.size} :
          UploadProgress(t, loaded, total)
    \/ \E t \in tasks : TransferSucceeds(t)
    \/ \E t \in tasks, err \in TransferErrors : TransferFails(t, err)
    \/ \E id \in RecordIds : RetryUpload(id)
    \/ \E id \in RecordIds : RemoveFile(id)
    \/ Render
    \/ Unmount

Spec == Init /\ [][Next]_vars

----------------------------------------------------------------------------
(* Operations of the form-submit variant *)

mainVars == <<files, rendered, fileError, tasks, nextId, nextAttempt, revoked, now,
              mounted, last>>

\* a file is selected while no submit is running: validateAndAddFiles clears
\* fileError and appends the file, or rejects it and sets fileError to the
\* summary (here without its entries)
SubmitSelect(c) ==
    /\ submit.pc # "waiting"
    /\ Len(submit.files) < MaxSelected
    /\ submit' =
          IF IsValid(c)
          THEN [submit EXCEPT !.files = Append(@, [name |-> c.name, type |-> c.type]),
                              !.fileError = "",
                              !.pc = "idle"]
          ELSE [submit EXCEPT !.fileError = "Some files were not added",
                              !.pc = "idle"]
    /\ UNCHANGED mainVars

\* handleSubmit up to its await: without files it sets fileError and returns;
\* otherwise files.map issues one fetch for each file
HandleSubmit ==
    /\ submit.pc # "waiting"
    /\ submit' =
          IF Len(submit.files) = 0
          THEN [submit EXCEPT !.fileError = "Please select at least one file"]
          ELSE [submit EXCEPT !.pc = "waiting",
                              !.promise = [i \in 1..Len(submit.files) |-> "pending"],
                              !.fetches = [i \in 1..Len(submit.files) |-> 1],
                              !.uploadResults = <<>>]
    /\ UNCHANGED mainVars

\* the fetch of files[i] settles: the callback pushes its result
FetchSettles(i, outcome) ==
    /\ i \in 1..Len(submit.promise)
    /\ submit.promise[i] = "pending"
    /\ submit' = [submit EXCEPT
                    !.uploadResults = Append(@, UploadResult(submit.files[i], outcome, now)),
                    !.promise[i] = MappedPromise(outcome)]
    /\ UNCHANGED mainVars

\* Promise.all settles: fulfilled when every promise is, rejected as soon as
\* one is, which runs the outer catch
PromiseAllSettles ==
    /\ submit.pc = "waiting"
    /\ LET all == {submit.promise[i] : i \in 1..Len(submit.promise)}
       IN \/ /\ "rejected" \in all
             /\ submit' = [submit EXCEPT !.pc = "done",
                             !.fileError = "Upload process failed. Please try again."]
          \/ /\ all = {"fulfilled"}
             /\ submit' = [submit EXCEPT !.pc = "done"]
    /\ UNCHANGED mainVars

SubmitNext ==
    \/ \E c \in Candidates : SubmitSelect(c)
    \/ HandleSubmit
    \/ \E i \in 1..MaxSelected, outcome \in FetchOutcomes : FetchSettles(i, outcome)
    \/ PromiseAllSettles

SubmitSpec == Init /\ [][SubmitNext]_vars

----------------------------------------------------------------------------
(* Scheduling: the provider answers every request and every transfer ends *)

\* the batches without a rejected candidate: the rejection summary stays empty
AcceptedBatches == {batch \in Batches : RejectedOf(batch) = <<>>}

\* an attempt of a record that carries an errorMessage was started by a retry:
\* only the catch of a failed attempt sets one and no update removes it
IsRetryAttempt(t) == \E f \in Find(files, t.id) : f.errorMessage # Absent

\* the fetch of an attempt settles; when retriesSucceed, only a first attempt
\* is answered with a failure
AuthResponds(retriesSucceed) ==
    \E t \in tasks :
       \/ \E dt \in 0..1 : AuthSucceeds(t, dt)
       \/ /\ retriesSucceed => ~IsRetryAttempt(t)
          /\ \E http \in BOOLEAN : AuthFails(t, http)

\* the axios.put of an attempt settles
TransferEnds(retriesSucceed) ==
    \E t \in tasks :
       \/ TransferSucceeds(t)
       \/ /\ retriesSucceed => ~IsRetryAttempt(t)
          /\ \E err \in TransferErrors : TransferFails(t, err)

\* the user's actions and the callbacks that end no attempt
UserOrProgress ==
    \/ \E batch \in AcceptedBatches : ValidateAndAddFiles(batch)
    \/ \E t \in tasks : \E loaded \in LoadedPoints(t.size), total \in {NoTotal, t.size} :
          UploadProgress(t, loaded, total)
    \/ \E id \in RecordIds : RetryUpload(id)
    \/ \E id \in RecordIds : RemoveFile(id)
    \/ Render
    \/ Unmount

FairNext == UserOrProgress \/ AuthResponds(FALSE) \/ TransferEnds(FALSE)

FairSpec ==
    /\ Init
    /\ [][FairNext]_vars
    /\ WF_vars(AuthResponds(FALSE))
    /\ WF_vars(TransferEnds(FALSE))

\* the behaviours in which every attempt started by a retry succeeds at both steps
RetriesSucceedNext == UserOrProgress \/ AuthResponds(TRUE) \/ TransferEnds(TRUE)

RetriesSucceedSpec ==
    /\ Init
    /\ [][RetriesSucceedNext]_vars
    /\ WF_vars(AuthResponds(TRUE))
    /\ WF_vars(TransferEnds(TRUE))

----------------------------------------------------------------------------
(* Properties *)

ValidCandidate(c) ==
    /\ c.type \in {"image/jpeg", "image/png", "image/gif", "video/mp4", "video/quicktime"}
    /\ c.size <= 15728640

Present(field) == field # <<>>

\* the upload attempts a step starts (each begins with an authorization request)
Started == {t \in tasks' : \A u \in tasks : u.aid # t.aid}

\* C1: after any sequence of operations every record has an allowed MIME type
\* and a size of at most 15 MiB (exactly 15 MiB is accepted); a candidate that
\* breaks either rule is no record and is listed in the summary of the intake
\* call that received it.
C1_OnlyValidRecords ==
    /\ \A i \in 1..Len(files) : ValidCandidate(files[i])
    /\ last.op = "intake" =>
          \A k \in 1..Len(last.batch) :
             LET c == last.batch[k]
             IN /\ ~ValidCandidate(c) =>
                      /\ \E j \in 1..Len(fileError) : fileError[j].name = c.name
                      /\ \A i \in 1..Len(files) : files[i].name # c.name
                /\ ValidCandidate(c) /\ c.size = 15728640 =>
                      /\ \E i \in 1..Len(files) :
                            files[i].name = c.name /\ files[i].size = 15728640
                      /\ \A j \in 1..Len(fileError) : fileError[j].name # c.name

C1_Witness ==
    /\ last.op = "intake"
    /\ Len(last.batch) = 2
    /\ \E k \in 1..2 : last.batch[k].size = 15728641
    /\ \E i \in 1..Len(files) : files[i].size = 15728640 /\ files[i].status = "uploading"
    /\ \E i \in 1..Len(files) : files[i].status = "error"

\* C2: an intake leaves the prior records in place and appends exactly the
\* valid candidates of the batch, in candidate order, whatever rejected
\* candidates the batch holds and wherever they are.
C2_IntakeAppends ==
    [][\A batch \in {last'.batch} :
          last'.op = "intake" /\ ValidateAndAddFiles(batch) =>
             LET ok == SelectSeq(batch, ValidCandidate)
             IN /\ Len(files') = Len(files) + Len(ok)
                /\ \A i \in 1..Len(files) : files'[i] = files[i]
                /\ \A k \in 1..Len(ok) :
                      /\ files'[Len(files) + k].name = ok[k].name
                      /\ files'[Len(files) + k].type = ok[k].type
                      /\ files'[Len(files) + k].size = ok[k].size]_vars

C2_Witness ==
    /\ last.op = "intake"
    /\ Len(last.batch) = 2
    /\ ~ValidCandidate(last.batch[1])
    /\ ValidCandidate(last.batch[2])
    /\ Len(files) = 2
    /\ files[1].status = "success"
    /\ files[2].name = last.batch[2].name

\* C3: every record's status is one of the four statuses and the record has
\* an errorMessage exactly when its status is error.
C3_ErrorMessageIffError ==
    \A i \in 1..Len(files) :
       /\ files[i].status \in {"pending", "uploading", "success", "error"}
       /\ Present(files[i].errorMessage) <=> files[i].status = "error"

\* C4: a record has a remoteUrl exactly when its status is success.
C4_UrlIffSuccess ==
    \A i \in 1..Len(files) : Present(files[i].url) <=> files[i].status = "success"

C4_Witness ==
    /\ \E i \in 1..Len(files) : files[i].status = "success" /\ Present(files[i].url)
    /\ \E j \in 1..Len(files) : files[j].status = "error" /\ ~Present(files[j].url)

\* C5: no record has a remoteUrl and an errorMessage at the same time.
C5_UrlExcludesMessage ==
    \A i \in 1..Len(files) : ~(Present(files[i].url) /\ Present(files[i].errorMessage))

\* C6: a retry of a record in error leaves it uploading with progress 0 and
\* without errorMessage, and issues a new authorization request that carries
\* nothing of the failed attempt.
C6_RetryResets ==
    last.op = "retry" =>
       /\ \A f \in Find(files, last.id) :
             /\ f.status = "uploading"
             /\ f.progress = 0
             /\ ~Present(f.errorMessage)
       /\ \E t \in tasks : t.id = last.id /\ t.pc = "auth" /\ ~Present(t.resp)

\* C7: a record whose status is success keeps it in every later state until it
\* is removed, and no authorization request is issued for it.
C7_SuccessIsFinal ==
    [][\A i \in 1..Len(files) :
          files[i].status = "success" =>
             /\ \A j \in 1..Len(files') :
                   files'[j].id = files[i].id => files'[j].status = "success"
             /\ \A t \in Started : t.id # files[i].id]_vars

C7_Witness ==
    /\ Len(files) = 2
    /\ files[1].status = "success"
    /\ rendered[1].status = "success"
    /\ last.op = "transferFail"
    /\ last.id = files[2].id
    /\ rendered[2].status = "uploading"

\* C8: a retry is not taken for a record whose status is not error: no step
\* starts an upload attempt for such a record or is a retry of it.
C8_RetryOnlyFromError ==
    [][\A i \in 1..Len(files) :
          files[i].status # "error" =>
             /\ \A t \in Started : t.id # files[i].id
             /\ ~RetryUpload(files[i].id)]_vars

C8_Witness ==
    /\ last.op = "transferOk"
    /\ nextAttempt <= MaxAttempts
    /\ \E f \in Find(files, last.id) : f.status = "success"
    /\ \E card \in Find(rendered, last.id) :
          card.status = "success" /\ ~RetryEnabled(card)

\* C9: while a record is uploading, its stored progressPercent never decreases
\* from one state to the next, whatever byte counts the transport reports.
C9_ProgressMonotonic ==
    [][\A i \in 1..Len(files) : \A j \in 1..Len(files') :
          /\ files'[j].id = files[i].id
          /\ files[i].status = "uploading" /\ files'[j].status = "uploading"
          /\ files[i].progress \in 0..100 /\ files'[j].progress \in 0..100
          => files'[j].progress >= files[i].progress]_vars

\* C10: when an attempt of a record still in the set ends, the record's
\* progressPercent is 100 exactly when the attempt ended in success; an
\* attempt that ends in error leaves it at 0, whatever was delivered before.
C10_FinalProgress ==
    /\ last.op = "transferOk" =>
          \A f \in Find(files, last.id) : f.status = "success" /\ f.progress = 100
    /\ last.op \in {"transferFail", "authHttpFail", "authNetFail"} =>
          \A f \in Find(files, last.id) : f.status = "error" /\ f.progress = 0

C10_Witness ==
    /\ last.op = "transferFail"
    /\ last.seen = {100}
    /\ \E f \in Find(files, last.id) : f.status = "error" /\ f.progress = 0

\* C11: a transfer is in flight only for an attempt whose authorization
\* request has succeeded (it carries the parsed response of that request), and
\* a step in which an authorization request fails ends the attempt without a
\* transfer and leaves the record, if still present, in error.
C11_TransferOnlyAfterAuth ==
    [][/\ \A t \in tasks' :
             t.pc = "transfer" =>
                \E u \in tasks :
                   /\ u.aid = t.aid
                   /\ \/ u = t
                      \/ /\ u.pc = "auth"
                         /\ last'.op = "authOk"
                         /\ \E dt \in 0..1 : AuthSucceeds(u, dt)
                         /\ Present(t.resp)
       /\ \A t \in tasks, http \in BOOLEAN :
             AuthFails(t, http) =>
                /\ \A u \in tasks' : u.aid # t.aid
                /\ \A f \in Find(files', t.id) : f.status = "error"]_vars

C11_Witness ==
    /\ last.op = "authHttpFail"
    /\ \E f \in Find(files, last.id) : f.status = "error"
    /\ \A t \in tasks : t.id # last.id
    /\ \E t \in tasks : t.pc = "transfer" /\ Present(t.resp)


\* the messages of the "Failed to get upload URL" class
AuthStepMessages ==
    {"Failed to get upload URL: Internal Server Error", "Failed to get upload URL: "}

\* C12: when the authorization step of an attempt fails, by a non-success
\* response or by a failure of the request itself, the errorMessage set on the
\* record is of the "Failed to get upload URL" class.
C12_AuthFailureNamesStep ==
    last.op \in {"authHttpFail", "authNetFail"} =>
       \A f \in Find(files, last.id) :
          /\ f.status = "error"
          /\ \E m \in AuthStepMessages : f.errorMessage = Some(m)


\* C13: a transfer that fails, after whatever progress was reported, leaves the
\* record (if still present) in error with progressPercent 0 and with the
\* message of the failure, or "Failed to upload file" when the failure has none.
C13_TransferFailure ==
    [][\A t \in tasks, err \in TransferErrors :
          TransferFails(t, err) =>
             \A f \in Find(files', t.id) :
                /\ f.status = "error"
                /\ f.progress = 0
                /\ f.errorMessage = Some(IF err.isError THEN err.message
                                         ELSE "Failed to upload file")]_vars

C13_Witness ==
    /\ Len(files) = 2
    /\ files[1].status = "error"
    /\ files[1].progress = 0
    /\ files[1].errorMessage = Some("Network Error")
    /\ last.op = "transferFail"
    /\ last.id = files[2].id
    /\ last.seen = {40}
    /\ files[2].status = "error"
    /\ files[2].progress = 0
    /\ files[2].errorMessage = Some("Failed to upload file")


\* C14: when the transfer of an authorized attempt succeeds and the record is
\* still in the set, the record becomes success with progressPercent 100 and a
\* remoteUrl whose tail is the storage key of that attempt's authorization
\* response (uploads/<millis>-<the record's file name>).
C14_SuccessUpdate ==
    [][\A t \in tasks :
          TransferSucceeds(t) =>
             \A f \in Find(files', t.id) :
                /\ f.status = "success"
                /\ f.progress = 100
                /\ Present(f.url)
                /\ f.url[1].host = ".s3.amazonaws.com/"
                /\ f.url[1].key = t.resp[1].key
                /\ t.resp[1].key.prefix = "uploads/"
                /\ t.resp[1].key.filename = f.name]_vars

C14_Witness ==
    /\ last.op = "transferOk"
    /\ last.seen = {40}
    /\ \E f \in Find(files, last.id) :
          /\ f.status = "success"
          /\ f.progress = 100
          /\ f.url = Some(ObjectUrl("undefined", StorageKey(1, f.name)))


\* C15: the remoteUrl of a success record is the public object URL
\* https://<bucket>.s3.amazonaws.com/<key> that /confirm-upload returns for the
\* key of the record's remoteUrl.
C15_UrlIsConfirmedUrl ==
    \A i \in 1..Len(files) :
       files[i].status = "success" /\ Present(files[i].url) =>
          files[i].url[1] = ConfirmUpload([key |-> files[i].url[1].key]).body.imageUrl


\* the in-flight upload attempts of the records other than id
OthersTasks(ts, id) == {u \in ts : u.id # id}

\* C16: a step in which the authorization or the transfer of a record A fails
\* changes no field of any other record B and leaves B's in-flight requests as
\* they were; and in the state after such a failure every in-flight attempt of
\* another record can still take its next step towards success or error.
C16_FailureIsLocal ==
    /\ [][\A t \in tasks :
             \/ \E http \in BOOLEAN : AuthFails(t, http)
             \/ \E err \in TransferErrors : TransferFails(t, err)
             => /\ Len(files') = Len(files)
                /\ \A i \in 1..Len(files) :
                      files[i].id # t.id => files'[i] = files[i]
                /\ OthersTasks(tasks', t.id) = OthersTasks(tasks, t.id)]_vars
    /\ [](last.op \in {"authHttpFail", "authNetFail", "transferFail"} =>
            \A u \in OthersTasks(tasks, last.id) :
               /\ u.pc = "auth" =>
                     /\ ENABLED AuthSucceeds(u, 0)
                     /\ \A http \in BOOLEAN : ENABLED AuthFails(u, http)
               /\ u.pc = "transfer" =>
                     /\ ENABLED TransferSucceeds(u)
                     /\ \A err \in TransferErrors : ENABLED TransferFails(u, err))

C16_Witness ==
    /\ Len(files) = 2
    /\ last.op = "transferFail"
    /\ last.id = files[1].id
    /\ files[1].status = "error"
    /\ files[2].status = "uploading"
    /\ files[2].progress = 40
    /\ \E u \in tasks : u.id = files[2].id /\ u.pc = "transfer"


\* an id that was given to a record and is in the set no more
Removed(id) == id < nextId /\ Find(files, id) = {}

\* C17: once a record has been removed while its attempt is in flight, every
\* later event of that attempt (authorization answer, progress notification,
\* success, failure) leaves the record set as it is, and no step brings a
\* removed id back.
C17_RemovedStaysRemoved ==
    [][/\ \A t \in tasks :
             /\ Removed(t.id)
             /\ \/ \E dt \in 0..1 : AuthSucceeds(t, dt)
                \/ \E http \in BOOLEAN : AuthFails(t, http)
                \/ \E loaded \in LoadedPoints(t.size), total \in {NoTotal, t.size} :
                      UploadProgress(t, loaded, total)
                \/ TransferSucceeds(t)
                \/ \E err \in TransferErrors : TransferFails(t, err)
             => files' = files
       /\ \A id \in RecordIds : Removed(id) => Find(files', id) = {}]_vars

C17_Witness ==
    /\ last.op = "transferFail"
    /\ Removed(last.id)
    /\ Len(files) = 1
    /\ files[1].status = "uploading"
    /\ files[1].progress = 40
    /\ \A t \in tasks : t.id # last.id


\* C18: the preview handle of every accepted record is released exactly once:
\* while the component is mounted it has been released exactly when its record
\* was removed, and after the unmount every handle has been released once.
C18_HandlesReleasedOnce ==
    \A id \in RecordIds :
       id < nextId =>
          /\ revoked[id] <= 1
          /\ mounted => (revoked[id] = 1 <=> Removed(id))
          /\ ~mounted => revoked[id] = 1


\* the number of upload attempts a step starts for the record id
StartedFor(id) == Cardinality({t \in Started : t.id = id})

\* C19: authorization requests are issued by two kinds of step only. An intake
\* issues exactly one for each record it accepts and none for any other; a
\* user's retry of a record issues exactly one, for that record; no other step
\* (in particular no failure) issues any. Every attempt starts at the
\* authorization step, with no authorization response yet. So the requests of
\* a record number one plus its retries.
C19_NoAutomaticRetry ==
    [][/\ \A t \in Started : t.pc = "auth" /\ ~Present(t.resp)
       /\ \A id \in RecordIds :
             StartedFor(id) =
                IF last'.op = "intake" /\ ValidateAndAddFiles(last'.batch)
                THEN (IF id >= nextId /\ id < nextId' THEN 1 ELSE 0)
                ELSE IF RetryUpload(id) THEN 1 ELSE 0]_vars

C19_Witness ==
    /\ last.op = "retry"
    /\ nextId = 2
    /\ nextAttempt = 3
    /\ \E f \in Find(files, last.id) : f.status = "uploading"
    /\ Cardinality(tasks) = 1
    /\ \A t \in tasks : t.id = last.id /\ t.aid = 2 /\ t.pc = "auth"


\* C20: an intake creates the record of each valid candidate as pending with
\* progressPercent 0 and, by its own state updates, moves it to uploading and
\* starts exactly one upload attempt for it; it starts no attempt for a
\* rejected candidate, and no record is pending in any state the updates of an
\* intake leave behind.
C20_AutoStart ==
    /\ [][last'.op = "intake" /\ ValidateAndAddFiles(last'.batch) =>
             LET ok == SelectSeq(last'.batch, ValidCandidate)
                 created == AcceptedOf(last'.batch, nextId)
             IN /\ Len(created) = Len(ok)
                /\ \A k \in 1..Len(created) :
                      created[k].status = "pending" /\ created[k].progress = 0
                /\ Len(files') = Len(files) + Len(ok)
                /\ \A k \in 1..Len(ok) :
                      LET f == files'[Len(files) + k]
                      IN /\ f.id = created[k].id
                         /\ f.status = "uploading"
                         /\ f.progress = 0
                         /\ StartedFor(f.id) = 1
                         /\ \A t \in Started :
                               t.id = f.id => t.name = ok[k].name /\ t.pc = "auth"
                /\ Cardinality(Started) = Len(ok)
                /\ \A t \in Started :
                      ValidCandidate([name |-> t.name, type |-> t.type, size |-> t.size])]_vars
    /\ [](\A i \in 1..Len(files) : files[i].status # "pending")

C20_Witness ==
    /\ last.op = "intake"
    /\ Len(last.batch) = 2
    /\ ValidCandidate(last.batch[1])
    /\ ~ValidCandidate(last.batch[2])
    /\ Len(files) = 1
    /\ files[1].name = last.batch[1].name
    /\ files[1].status = "uploading"
    /\ files[1].progress = 0
    /\ Cardinality(tasks) = 1
    /\ \A t \in tasks : t.id = files[1].id /\ t.pc = "auth"


\* C21: two transfers in flight for files of the same name never carry the
\* same storage key, whenever their authorization requests were handled.
C21_DistinctKeys ==
    \A t \in tasks : \A u \in tasks :
       /\ t.aid # u.aid
       /\ t.pc = "transfer" /\ u.pc = "transfer"
       /\ t.name = u.name
       => t.resp[1].key # u.resp[1].key


\* the steps whose update is keyed by the id of one record
KeyedOps == {"authHttpFail", "authNetFail", "progress", "transferOk",
             "transferFail", "retry"}

\* C22: every step works on the latest record set. A record B of the set is
\* deleted only by the removal of B; otherwise it is still in the set after the
\* step, with every field as it was unless the step is an update keyed by B's
\* id; the records keep their order, and a record the step adds is a new one of
\* an intake, never one that was removed before.
C22_LatestStateUpdates ==
    [][/\ \A i \in 1..Len(files) :
             \/ last'.op = "remove" /\ last'.id = files[i].id /\ RemoveFile(files[i].id)
             \/ \E j \in 1..Len(files') :
                   /\ files'[j].id = files[i].id
                   /\ \/ files'[j] = files[i]
                      \/ last'.op \in KeyedOps /\ last'.id = files[i].id
       /\ \A i \in 1..Len(files) : \A k \in 1..Len(files) :
             i < k =>
                \A j \in 1..Len(files') : \A l \in 1..Len(files') :
                   files'[j].id = files[i].id /\ files'[l].id = files[k].id => j < l
       /\ \A j \in 1..Len(files') :
             Find(files, files'[j].id) = {} =>
                last'.op = "intake" /\ files'[j].id >= nextId]_vars

C22_Witness ==
    /\ Len(files) = 2
    /\ last.op = "progress"
    /\ last.id = files[1].id
    /\ files[1].status = "uploading" /\ files[1].progress = 40
    /\ files[2].status = "uploading" /\ files[2].progress = 100
    /\ \A t \in tasks : t.pc = "transfer"


\* C23: when every attempt started by a retry succeeds at both steps, a record
\* that was retried and is not removed eventually has status success (as long
\* as the component is mounted), and from then on keeps it until it is removed.
C23_RetryConverges ==
    /\ \A id \in RecordIds :
          (last.op = "retry" /\ last.id = id)
             ~> (\/ ~mounted
                 \/ Removed(id)
                 \/ \E f \in Find(files, id) : f.status = "success")
    /\ [][\A i \in 1..Len(files) :
             files[i].status = "success" /\ files[i].errorMessage # Absent =>
                \A f \in Find(files', files[i].id) : f.status = "success"]_vars

C23_Witness ==
    /\ last.op = "transferOk"
    /\ mounted
    /\ \E f \in Find(files, last.id) :
          /\ f.status = "success"
          /\ f.progress = 100
          /\ f.errorMessage = Some("Network Error")


\* C24: in every state the progressPercent of every record is an integer
\* between 0 and 100, whatever byte counts the notifications carried.
C24_ProgressInRange ==
    \A i \in 1..Len(files) : files[i].progress \in 0..100


\* C25: no two records of the set have the same id, and no record has the id
\* of a record that was created earlier and removed, also when the same file
\* is added again.
C25_UniqueIds ==
    /\ \A i \in 1..Len(files) : \A j \in 1..Len(files) :
          i # j => files[i].id # files[j].id
    /\ \A i \in 1..Len(files) : \A j \in 1..Len(files) :
          i < j => files[i].id < files[j].id
    /\ \A i \in 1..Len(files) : files[i].id < nextId
    /\ \A t \in tasks : \A f \in Find(files, t.id) : f.name = t.name

C25_Witness ==
    /\ Len(files) = 1
    /\ files[1].id = 2
    /\ Removed(1)
    /\ \E t \in tasks : t.id = 1 /\ t.name = files[1].name
    /\ last.op = "intake"


\* the ids of the records, in the order of the set
IdsOf(fs) == [i \in 1..Len(fs) |-> fs[i].id]

\* C26: the sequence of record ids changes only in an intake, which appends
\* ids, and in a removal, which deletes one id; every other step (authorization
\* answer, progress, end of transfer, retry, render, unmount) leaves it as it
\* is. No step changes the name, size, MIME type or preview handle of a record.
C26_Frame ==
    [][/\ IdsOf(files') # IdsOf(files) =>
             \/ /\ last'.op = "intake"
                /\ Len(files') > Len(files)
                /\ SubSeq(IdsOf(files'), 1, Len(files)) = IdsOf(files)
             \/ /\ last'.op = "remove"
                /\ IdsOf(files') = IdsOf(FilterOut(files, last'.id))
                /\ Len(files') = Len(files) - 1
       /\ \A i \in 1..Len(files) : \A j \in 1..Len(files') :
             files'[j].id = files[i].id =>
                /\ files'[j].name = files[i].name
                /\ files'[j].size = files[i].size
                /\ files'[j].type = files[i].type
                /\ files'[j].previewUrl = files[i].previewUrl]_vars

C26_Witness ==
    /\ Len(files) = 2
    /\ last.op = "transferOk"
    /\ last.id = files[1].id
    /\ files[1].status = "success"
    /\ files[1].previewUrl = files[1].id
    /\ files[2].status = "error"
    /\ files[2].previewUrl = files[2].id


\* the indicators a card shows
Indicators(card) ==
    (IF ShowsRetry(card) THEN {"retry"} ELSE {})
    \cup (IF ShowsProgress(card) THEN {"progress"} ELSE {})
    \cup (IF ShowsSuccess(card) THEN {"success"} ELSE {})

\* C27: there is one card for each record, in the order of the set; a card
\* shows the retry control exactly when the status it renders is error, the
\* progress indicator exactly when it is uploading, the success indicator
\* exactly when it is success, never two of them and none for pending; and a
\* card renders the status of its record unless a render is still due.
C27_CardIndicators ==
    /\ IdsOf(rendered) = IdsOf(files)
    /\ \A i \in 1..Len(rendered) :
          /\ Indicators(rendered[i]) =
                CASE rendered[i].status = "error" -> {"retry"}
                  [] rendered[i].status = "uploading" -> {"progress"}
                  [] rendered[i].status = "success" -> {"success"}
                  [] OTHER -> {}
          /\ mounted /\ rendered[i].status # files[i].status => ENABLED Render

C27_Witness ==
    /\ Len(rendered) = 2
    /\ rendered = Cards(files)
    /\ Indicators(rendered[1]) = {"retry"}
    /\ Indicators(rendered[2]) = {"success"}
    /\ files[1].status = "error"
    /\ files[2].status = "success"


\* C28: when every authorization request is answered and every transfer ends,
\* a record that is uploading eventually is success or error, unless it is
\* removed or the component unmounts first.
C28_UploadingEnds ==
    \A id \in RecordIds :
       (\E f \in Find(files, id) : f.status = "uploading")
          ~> (\/ ~mounted
              \/ Removed(id)
              \/ \E f \in Find(files, id) : f.status \in {"success", "error"})

C28_Witness ==
    /\ mounted
    /\ Len(files) = 2
    /\ files[1].status = "error"
    /\ files[1].errorMessage = Some("Failed to get upload URL: Internal Server Error")
    /\ files[2].status = "success"
    /\ tasks = {}


InvalidCandidate(c) == ~ValidCandidate(c)

TypeAllowed(c) ==
    c.type \in {"image/jpeg", "image/png", "image/gif", "video/mp4", "video/quicktime"}

\* C29: the summary of an intake has one entry for each rejected candidate of
\* the batch, in candidate order, with the reason "unsupported type" when the
\* MIME type is not allowed (also when the file is larger than 15 MiB as well)
\* and "exceeds 15MB limit" only when the type is allowed and the size is not.
C29_ReasonOfFirstRule ==
    last.op = "intake" =>
       LET bad == SelectSeq(last.batch, InvalidCandidate)
       IN /\ Len(fileError) = Len(bad)
          /\ \A j \in 1..Len(bad) :
                /\ fileError[j].name = bad[j].name
                /\ fileError[j].reason =
                      IF TypeAllowed(bad[j]) THEN "exceeds 15MB limit"
                      ELSE "unsupported type"
                /\ fileError[j].reason = "exceeds 15MB limit" =>
                      TypeAllowed(bad[j]) /\ bad[j].size > 15728640

C29_Witness ==
    /\ last.op = "intake"
    /\ Len(last.batch) = 2
    /\ ~TypeAllowed(last.batch[1]) /\ last.batch[1].size > 15728640
    /\ TypeAllowed(last.batch[2]) /\ last.batch[2].size > 15728640
    /\ fileError = << [name |-> last.batch[1].name, reason |-> "unsupported type"],
                      [name |-> last.batch[2].name, reason |-> "exceeds 15MB limit"] >>


\* C30: after an intake the summary is non-empty exactly when the batch had a
\* rejected candidate, and every entry names a rejected candidate of that
\* batch: nothing of the summary of an earlier intake is left.
C30_SummaryOfThisIntake ==
    last.op = "intake" =>
       /\ Len(last.batch) > 0
       /\ fileError # <<>> <=> \E k \in 1..Len(last.batch) : InvalidCandidate(last.batch[k])
       /\ \A j \in 1..Len(fileError) :
             \E k \in 1..Len(last.batch) :
                InvalidCandidate(last.batch[k]) /\ fileError[j].name = last.batch[k].name
       /\ Len(fileError) <= Len(last.batch)

C30_Witness ==
    /\ last.op = "intake"
    /\ Len(last.batch) = 1
    /\ ValidCandidate(last.batch[1])
    /\ fileError = <<>>
    /\ Len(files) = 2
    /\ files[1].status = "error"
    /\ files[2].status = "uploading"


\* C31: an intake leaves every record that was in the set before it exactly as
\* it was (status, progressPercent, remoteUrl, errorMessage included), whatever
\* it rejects; and a step in which an authorization request or a transfer
\* fails leaves the rejection summary as it was.
C31_DisjointChannels ==
    [][/\ last'.op = "intake" /\ ValidateAndAddFiles(last'.batch) =>
             /\ Len(files') >= Len(files)
             /\ \A i \in 1..Len(files) : files'[i] = files[i]
       /\ \A t \in tasks :
             \/ \E http \in BOOLEAN : AuthFails(t, http)
             \/ \E err \in TransferErrors : TransferFails(t, err)
             => fileError' = fileError]_vars

C31_Witness ==
    /\ last.op = "authNetFail"
    /\ Len(fileError) = 1
    /\ fileError[1].reason = "exceeds 15MB limit"
    /\ \E f \in Find(files, last.id) :
          f.status = "error" /\ f.errorMessage = Some("Failed to fetch")


\* C32: /get-upload-url answers a request either with a 2xx response whose
\* body has url and key (the key being uploads/<millis>-<filename>), or, when
\* the signing fails, with status 500 and a body with an error field; a
\* transfer in flight carries a body with url and key; and after a non-2xx
\* answer the record is in error with a message of the authorization step and
\* no attempt of it is in flight.
C32_BackendResponse ==
    /\ \A c \in Candidates : \A t \in 0..MaxClock : \A signOk \in BOOLEAN :
          LET r == GetUploadUrl([filename |-> c.name, filetype |-> c.type], t, signOk)
          IN IF signOk
             THEN /\ r.status \in 200..299
                  /\ DOMAIN r.body = {"url", "key"}
                  /\ r.body.key = [prefix |-> "uploads/", millis |-> t, filename |-> c.name]
             ELSE /\ r.status = 500
                  /\ DOMAIN r.body = {"error"}
    /\ \A t \in tasks : t.pc = "transfer" => DOMAIN t.resp[1] = {"url", "key"}
    /\ last.op = "authHttpFail" =>
          /\ \A f \in Find(files, last.id) :
                /\ f.status = "error"
                /\ \E m \in AuthStepMessages : f.errorMessage = Some(m)
          /\ \A t \in tasks : t.id # last.id

C32_Witness ==
    /\ last.op = "authHttpFail"
    /\ tasks = {}
    /\ Len(files) = 1
    /\ files[1].status = "error"
    /\ files[1].progress = 0
    /\ files[1].errorMessage = Some("Failed to get upload URL: Internal Server Error")
    /\ files[1].url = Absent


\* C33: at most one upload attempt is in flight for a record id, and a card
\* offers the retry only when no attempt of its record is in flight.
C33_OneAttemptInFlight ==
    /\ \A t \in tasks : \A u \in tasks : t.id = u.id => t.aid = u.aid
    /\ mounted =>
          \A i \in 1..Len(rendered) :
             RetryEnabled(rendered[i]) => \A t \in tasks : t.id # rendered[i].id

C33_Witness ==
    /\ last.op = "authOk"
    /\ \E f \in Find(files, last.id) :
          f.status = "uploading" /\ f.errorMessage # Absent
    /\ \E t \in tasks : t.id = last.id /\ t.aid = 2 /\ t.pc = "transfer"
    /\ Cardinality({t \in tasks : t.id = last.id}) = 1


\* C34: in every state a pending record and a record in error have
\* progressPercent 0 and a success record has 100; and a progress notification
\* leaves the status of every record as it was.
C34_StatusFixesProgress ==
    /\ [](\A i \in 1..Len(files) :
            /\ files[i].status \in {"pending", "error"} => files[i].progress = 0
            /\ files[i].status = "success" => files[i].progress = 100)
    /\ [][\A t \in tasks :
             (\E loaded \in LoadedPoints(t.size), total \in {NoTotal, t.size} :
                 UploadProgress(t, loaded, total))
             => /\ Len(files') = Len(files)
                /\ \A i \in 1..Len(files) : files'[i].status = files[i].status]_vars

C34_Witness ==
    /\ last.op = "progress"
    /\ Len(files) = 2
    /\ last.id = files[2].id
    /\ files[2].status = "uploading" /\ files[2].progress = 100
    /\ files[1].status = "error" /\ files[1].progress = 0


\* C35: a removal deletes the record of the id and no other, keeps the order
\* of the others, and releases the preview handle of that record once and no
\* other handle; applied to an id that is not in the set (one that was removed
\* before, or was never given), the removal update returns the same records
\* and releases nothing.
C35_RemoveExactlyOne ==
    /\ [][\A id \in RecordIds :
             RemoveFile(id) =>
                /\ Find(files, id) # {}
                /\ Find(files', id) = {}
                /\ Len(files') = Len(files) - 1
                /\ \A i \in 1..Len(files) :
                      files[i].id # id =>
                         \E j \in {i - 1, i} :
                            j \in 1..Len(files') /\ files'[j] = files[i]
                /\ \A h \in RecordIds :
                      revoked'[h] = revoked[h] + (IF h = id THEN 1 ELSE 0)]_vars
    /\ [](\A id \in RecordIds :
            Find(files, id) = {} =>
               /\ FilterOut(files, id) = files
               /\ RevokeOf(revoked, files, id) = revoked)

C35_Witness ==
    /\ last.op = "remove"
    /\ last.id = 1
    /\ Len(files) = 1
    /\ files[1].id = 2
    /\ revoked[1] = 1
    /\ revoked[2] = 0
    /\ FilterOut(files, 1) = files


\* C36: a removal leaves the attempts in flight as they are; when the
\* authorization request of a removed record then succeeds, its transfer to
\* the authorized key is issued all the same, and that transfer can complete.
C36_RemovalDoesNotCancel ==
    /\ [][/\ \A id \in RecordIds : RemoveFile(id) => tasks' = tasks
          /\ \A t \in tasks : \A dt \in 0..1 :
                Removed(t.id) /\ AuthSucceeds(t, dt) =>
                   \E u \in tasks' :
                      /\ u.aid = t.aid
                      /\ u.id = t.id
                      /\ u.pc = "transfer"
                      /\ u.resp = Some([url |-> [signed |-> StorageKey(now', t.name),
                                                contentType |-> t.type,
                                                expiresIn |-> 3600],
                                        key |-> StorageKey(now', t.name)])]_vars
    /\ [](\A t \in tasks :
            mounted /\ Removed(t.id) /\ t.pc = "transfer" => ENABLED TransferSucceeds(t))

C36_Witness ==
    /\ last.op = "authOk"
    /\ Removed(last.id)
    /\ files = <<>>
    /\ \E t \in tasks :
          t.id = last.id /\ t.pc = "transfer" /\ t.resp[1].key = StorageKey(now, t.name)


\* the files of the running submit whose fetch has settled
Settled == {i \in 1..Len(submit.promise) : submit.promise[i] # "pending"}

\* C37: in the form-submit variant, a submit with at least one file issues one
\* authorization request for each file, all before any of them settles, and
\* records one result, success or error, for each file whose request settled
\* (so one per file when the submit is done); a failed request leaves the
\* requests of the other files free to settle and the global upload error
\* unset; no byte transfer is issued; and a submit without files sets "Please
\* select at least one file" and issues no request.
C37_SubmitResults ==
    /\ submit.pc \in {"waiting", "done"} =>
          /\ Len(submit.files) >= 1
          /\ Len(submit.fetches) = Len(submit.files)
          /\ \A i \in 1..Len(submit.fetches) : submit.fetches[i] = 1
          /\ Len(submit.uploadResults) = Cardinality(Settled)
          /\ \A k \in 1..Len(submit.uploadResults) :
                LET r == submit.uploadResults[k]
                IN /\ r.status \in {"success", "error"}
                   /\ r.status = "success" <=> r.presignedUrl # Absent
                   /\ Cardinality({j \in 1..Len(submit.uploadResults) :
                                     submit.uploadResults[j].file = r.file})
                        = Cardinality({i \in Settled : submit.files[i].name = r.file})
          /\ \A i \in 1..Len(submit.promise) :
                submit.promise[i] = "pending" =>
                   \A outcome \in FetchOutcomes : ENABLED FetchSettles(i, outcome)
    /\ submit.pc = "done" => Len(submit.uploadResults) = Len(submit.files)
    /\ submit.fileError # "Upload process failed. Please try again."
    /\ submit.fileError = "Please select at least one file" =>
          /\ submit.files = <<>>
          /\ submit.fetches = <<>>
          /\ submit.pc = "idle"
    /\ submit.puts = 0

C37_Witness ==
    /\ submit.pc = "done"
    /\ Len(submit.files) = 3
    /\ Len(submit.uploadResults) = 3
    /\ submit.uploadResults[1].status = "error"
    /\ submit.uploadResults[2].status = "success"
    /\ submit.uploadResults[3].status = "error"
    /\ submit.fileError = ""

====
